---------------------------- MODULE Spec2Model ----------------------------
(***************************************************************************)
(* Model of the DineFlow API client (src/app/api/services.js): the token   *)
(* store kept in localStorage under the key "token", the request executor  *)
(* `request`, and the auth catalog methods built on it.                    *)
(*                                                                         *)
(* JavaScript runs every handler to completion, so the synchronous part of *)
(* a call (everything up to the `await fetch(...)`) is one action, and the *)
(* continuation that runs when the transport answers is another.           *)
(***************************************************************************)
EXTENDS Integers, Sequences, FiniteSets, Bags, TLC

VARIABLES
    store,      \* localStorage.getItem("token"): Null or a string value
    calls,      \* the bag of request invocations waiting for the transport
    delivered,  \* what the last step delivered to a caller: the settled invocation, if any
    lastOp,     \* history: the last call that wrote the token store
    location,   \* window.location.href: the page the browser shows
    page        \* the landing page: its component state, its route, the last error it raised

vars == <<store, calls, delivered, lastOp, location, page>>

(***************************************************************************)
(* Bounds                                                                  *)
(***************************************************************************)
MaxInFlight == 1

\* the most entries a params object holds
MaxEntries == 2

\* the most calls in flight at once where calls are made to overlap
MaxConcurrent == 2

(***************************************************************************)
(* JavaScript values.  A value is a record with its type tag `t`; strings  *)
(* and numbers carry their text in `v`; a parsed JSON object carries its   *)
(* `message` property (Undefined when it has none) and a name for the rest *)
(* of its properties.                                                      *)
(***************************************************************************)
Undefined == [t |-> "undefined", v |-> ""]

Null == [t |-> "null", v |-> ""]

Str(s) == [t |-> "string", v |-> s]

Num(s) == [t |-> "number", v |-> s]

Obj(name, msg) == [t |-> "object", v |-> name, message |-> msg]

False == [t |-> "boolean", v |-> "false"]

\* ToBoolean: what `if (x)` and `x || y` test
Truthy(x) ==
    CASE x.t = "undefined" -> FALSE
      [] x.t = "null"      -> FALSE
      [] x.t = "string"    -> x.v # ""
      [] x.t = "number"    -> x.v \notin {"0", "NaN"}
      [] x.t = "boolean"   -> x.v = "true"
      [] OTHER             -> TRUE

\* ToString: what localStorage.setItem and the Error constructor apply
JSString(x) ==
    CASE x.t = "undefined" -> "undefined"
      [] x.t = "null"      -> "null"
      [] x.t = "string"    -> x.v
      [] x.t = "number"    -> x.v
      [] x.t = "boolean"   -> x.v
      [] OTHER             -> "[object Object]"

\* a || b
Or(a, b) == IF Truthy(a) THEN a ELSE b

\* x?.message
OptMessage(x) == IF x.t = "object" THEN x.message ELSE Undefined

\* a destructuring default:  { method = "GET", headers = {} }
Default(x, d) == IF x = Undefined THEN d ELSE x

(***************************************************************************)
(* Token store (services.js 17-19)                                         *)
(***************************************************************************)
API_BASE == "http://127.0.0.1:5000/api"

localStorage_getItem(st) == st

\* a store that keeps the first value written to it
localStorage_setItem_keepFirst(st, value) == IF st = Null THEN Str(JSString(value)) ELSE st

localStorage_setItem(st, value) == Str(JSString(value))

\* a removal that leaves the entry in place
localStorage_removeItem_keeps(st) == st

localStorage_removeItem(st) == Null

getAuthToken(st) == localStorage_getItem(st)

(***************************************************************************)
(* Errors.  A thrown value as the catch block and the caller see it: its   *)
(* name, its message (a JavaScript value: Undefined when the thrown value  *)
(* has no message), and the two ApiError fields.  NoStatus stands for a    *)
(* thrown value that has no `status` property.                             *)
(***************************************************************************)
NoStatus == -1

Thrown(name, message) ==
    [name |-> name, message |-> message, status |-> NoStatus, data |-> Undefined]

\* class ApiError extends Error: super(message) stores String(message),
\* or "" when the message is undefined
ApiError(message, status, data) ==
    [name    |-> "ApiError",
     message |-> IF message = Undefined THEN Str("") ELSE Str(JSString(message)),
     status  |-> status,
     data    |-> data]

(***************************************************************************)
(* Headers: a map from header name to its value, Undefined when the map    *)
(* has no such entry.                                                      *)
(***************************************************************************)
HeaderNames == {"Content-Type", "Authorization", "Accept"}

NoHeaders == [h \in HeaderNames |-> Undefined]

\* the spread written the other way round: {...headers, "Content-Type": "application/json"}
MergeHeaders_defaultsWin(defaults, headers) ==
    [h \in HeaderNames |-> IF defaults[h] # Undefined THEN defaults[h] ELSE headers[h]]

\* { "Content-Type": "application/json", ...headers }
MergeHeaders(defaults, headers) ==
    [h \in HeaderNames |-> IF headers[h] # Undefined THEN headers[h] ELSE defaults[h]]

DefaultHeaders == [NoHeaders EXCEPT !["Content-Type"] = Str("application/json")]

(***************************************************************************)
(* Bodies.  A body is a JavaScript value; objects are named, and           *)
(* JSON.stringify is the table of their serialisations.  A FormData has    *)
(* the tag "formdata"; an object that refers to itself cannot be           *)
(* serialised and makes JSON.stringify throw a TypeError.                  *)
(***************************************************************************)
Credentials == Obj("credentials", Undefined)

UserData == Obj("userData", Undefined)

\* the object literals the catalog builds from its arguments
StatusDays(status, days) == [t |-> "object", v |-> "{status,days}", message |-> Undefined,
                             status |-> status, days |-> days]

Role(role) == [t |-> "object", v |-> "{role}", message |-> Undefined, role |-> role]

Status(status) == [t |-> "object", v |-> "{status}", message |-> Undefined, status |-> status]

Email(email) == [t |-> "object", v |-> "{email}", message |-> Undefined, email |-> email]

TokenNewPassword(token, newPassword) ==
    [t |-> "object", v |-> "{token,new_password}", message |-> Undefined,
     token |-> token, new_password |-> newPassword]

Circular == Obj("circular", Undefined)

FormData(name) == [t |-> "formdata", v |-> name]

IsFormData(body) == body.t = "formdata"

JSON_stringify(body) ==
    CASE body = Credentials -> [threw |-> FALSE, v |-> "{\"email\":\"a@b.c\",\"password\":\"pw\"}"]
      [] body = UserData    -> [threw |-> FALSE, v |-> "{\"name\":\"A\",\"email\":\"a@b.c\"}"]
      [] body = Circular    -> [threw |-> TRUE,
                                error |-> Thrown("TypeError", Str("Converting circular structure to JSON"))]
      [] body.t = "string"  -> [threw |-> FALSE, v |-> "\"" \o body.v \o "\""]
      [] body.t = "number"  -> [threw |-> FALSE, v |-> body.v]
      [] body.t = "boolean" -> [threw |-> FALSE, v |-> body.v]
      [] body.v = "{status,days}" ->
             [threw |-> FALSE, v |-> "{\"status\":\"" \o body.status \o "\",\"days\":" \o body.days \o "}"]
      [] body.v = "{role}"   -> [threw |-> FALSE, v |-> "{\"role\":\"" \o body.role \o "\"}"]
      [] body.v = "{status}" -> [threw |-> FALSE, v |-> "{\"status\":\"" \o body.status \o "\"}"]
      [] body.v = "{email}"  -> [threw |-> FALSE, v |-> "{\"email\":\"" \o body.email \o "\"}"]
      [] body.v = "{token,new_password}" ->
             [threw |-> FALSE, v |-> "{\"token\":\"" \o body.token \o "\",\"new_password\":\""
                                        \o body.new_password \o "\"}"]
      [] OTHER              -> [threw |-> FALSE, v |-> "{}"]

(***************************************************************************)
(* Query strings.  `params` is Undefined or an object given by the         *)
(* sequence of its own entries, each a pair of strings spelled as          *)
(* sequences of characters.  URLSearchParams.toString() applies the        *)
(* application/x-www-form-urlencoded serialiser.                           *)
(***************************************************************************)
Params(entries) == [t |-> "object", v |-> "params", entries |-> entries]

\* the characters the serialiser leaves as they are (letters, digits, * - . _),
\* as far as the inputs use them
Unreserved == {"a", "b", "c", "B", "D", "F", "1", "2", "3", "5", "6", "*", "-", ".", "_"}

\* the text spelled by a sequence of characters
RECURSIVE Join(_)
Join(cs) == IF cs = <<>> THEN "" ELSE Head(cs) \o Join(Tail(cs))

\* the percent escape of a character, as characters
PercentChars(c) ==
    CASE c = "&" -> <<"%", "2", "6">>
      [] c = "=" -> <<"%", "3", "D">>
      [] c = "+" -> <<"%", "2", "B">>
      [] c = "%" -> <<"%", "2", "5">>
      [] c = "/" -> <<"%", "2", "F">>
      [] OTHER   -> <<"%", "3", "F">>   \* "?"

PercentCode(c) == Join(PercentChars(c))

\* a serialiser that writes every character as it is
EncodeChars_verbatim(c) == <<c>>

\* the urlencoded form of a character, as characters
EncodeChars(c) ==
    IF c \in Unreserved THEN <<c>>
    ELSE IF c = " " THEN <<"+">>
    ELSE PercentChars(c)

EncodeChar(c) == Join(EncodeChars(c))

RECURSIVE EncodeString(_)
EncodeString(cs) ==
    IF cs = <<>> THEN "" ELSE EncodeChar(Head(cs)) \o EncodeString(Tail(cs))

RECURSIVE EncodeAll(_)
EncodeAll(cs) ==
    IF cs = <<>> THEN <<>> ELSE EncodeChars(Head(cs)) \o EncodeAll(Tail(cs))

\* the serialised entries, as characters: name=value joined by "&"
RECURSIVE SerializeEntries(_)
SerializeEntries(entries) ==
    IF entries = <<>> THEN <<>>
    ELSE LET e == Head(entries)
             pair == EncodeAll(e[1]) \o <<"=">> \o EncodeAll(e[2])
         IN IF Len(entries) = 1 THEN pair
            ELSE pair \o <<"&">> \o SerializeEntries(Tail(entries))

URLSearchParams_toString(entries) == Join(SerializeEntries(entries))

(***************************************************************************)
(* Reading a query string back: the urlencoded parser that                 *)
(* new URLSearchParams(text) applies.  The text is cut at every "&", each  *)
(* non-empty piece at its first "=", "+" reads as a space and %XX as the   *)
(* character it escapes.                                                   *)
(***************************************************************************)
Unescape(a, b) ==
    CASE <<a, b>> = <<"2", "6">> -> "&"
      [] <<a, b>> = <<"3", "D">> -> "="
      [] <<a, b>> = <<"2", "B">> -> "+"
      [] <<a, b>> = <<"2", "5">> -> "%"
      [] <<a, b>> = <<"2", "F">> -> "/"
      [] <<a, b>> = <<"3", "F">> -> "?"
      [] OTHER                   -> ""

RECURSIVE DecodeChars(_)
DecodeChars(cs) ==
    IF cs = <<>> THEN <<>>
    ELSE IF Head(cs) = "+" THEN <<" ">> \o DecodeChars(Tail(cs))
    ELSE IF Head(cs) = "%" /\ Len(cs) >= 3 /\ Unescape(cs[2], cs[3]) # ""
         THEN <<Unescape(cs[2], cs[3])>> \o DecodeChars(SubSeq(cs, 4, Len(cs)))
    ELSE <<Head(cs)>> \o DecodeChars(Tail(cs))

\* the position of the first sep in cs, 0 when there is none
RECURSIVE IndexOf(_, _, _)
IndexOf(cs, sep, i) ==
    IF i > Len(cs) THEN 0
    ELSE IF cs[i] = sep THEN i
    ELSE IndexOf(cs, sep, i + 1)

RECURSIVE SplitOn(_, _)
SplitOn(cs, sep) ==
    LET i == IndexOf(cs, sep, 1)
    IN  IF i = 0 THEN <<cs>>
        ELSE <<SubSeq(cs, 1, i - 1)>> \o SplitOn(SubSeq(cs, i + 1, Len(cs)), sep)

ParsePiece(piece) ==
    LET i == IndexOf(piece, "=", 1)
    IN  IF i = 0 THEN <<DecodeChars(piece), <<>>>>
        ELSE <<DecodeChars(SubSeq(piece, 1, i - 1)), DecodeChars(SubSeq(piece, i + 1, Len(piece)))>>

RECURSIVE ParsePieces(_)
ParsePieces(pieces) ==
    IF pieces = <<>> THEN <<>>
    ELSE IF Head(pieces) = <<>> THEN ParsePieces(Tail(pieces))
    ELSE <<ParsePiece(Head(pieces))>> \o ParsePieces(Tail(pieces))

ParseQuery(cs) == ParsePieces(SplitOn(cs, "&"))

(***************************************************************************)
(* request, synchronous part (services.js 22-60): everything the function  *)
(* does before it suspends at `await fetch(url, requestOptions)`.          *)
(***************************************************************************)
\* a URL that always gets its "?"
ComposeUrl_alwaysQuery(path, params) ==
    IF Truthy(params)
    THEN (API_BASE \o path) \o "?" \o URLSearchParams_toString(params.entries)
    ELSE (API_BASE \o path) \o "?"

\* lines 27-31
ComposeUrl(path, params) ==
    IF Truthy(params)
    THEN (API_BASE \o path) \o "?" \o URLSearchParams_toString(params.entries)
    ELSE API_BASE \o path

\* lines 28-30: what follows the "?" of the URL, as characters
SearchOf(params) ==
    IF Truthy(params) THEN SerializeEntries(params.entries) ELSE <<>>

\* the token only fills in for a caller that sent no Authorization entry
AttachToken_callerWins(headers, token) ==
    IF Truthy(token) /\ headers["Authorization"] = Undefined
    THEN [headers EXCEPT !["Authorization"] = Str("Bearer " \o JSString(token))]
    ELSE headers

\* the header is written without testing the token
AttachToken_unguarded(headers, token) ==
    [headers EXCEPT !["Authorization"] = Str("Bearer " \o JSString(token))]

\* lines 44-47
AttachToken(headers, token) ==
    IF Truthy(token)
    THEN [headers EXCEPT !["Authorization"] = Str("Bearer " \o JSString(token))]
    ELSE headers

\* a multipart branch that leaves the headers alone
BodyHeaders_keepsContentType(headers, body) == headers

\* lines 50-57: the headers once the body has been looked at
BodyHeaders(headers, body) ==
    IF Truthy(body) /\ IsFormData(body)
    THEN [headers EXCEPT !["Content-Type"] = Undefined]
    ELSE headers

\* lines 50-57: requestOptions.body, or the TypeError of JSON.stringify
BodyOf(body) ==
    IF ~Truthy(body) THEN [threw |-> FALSE, v |-> Undefined]
    ELSE IF IsFormData(body) THEN [threw |-> FALSE, v |-> body]
    ELSE IF JSON_stringify(body).threw THEN JSON_stringify(body)
    ELSE [threw |-> FALSE, v |-> Str(JSON_stringify(body).v)]

\* What request hands to fetch when called with the store holding st, or the
\* value it throws before reaching fetch.
RequestSync(path, opts, st) ==
    LET method  == Default(opts.method, Str("GET"))
        headers == Default(opts.headers, NoHeaders)
        url     == ComposeUrl(path, opts.params)
        merged  == MergeHeaders(DefaultHeaders, headers)
        token   == getAuthToken(st)
        authed  == AttachToken(merged, token)
        body    == BodyOf(opts.body)
    IN  IF body.threw
        THEN [threw |-> TRUE, error |-> body.error]
        ELSE [threw   |-> FALSE,
              url     |-> url,
              search  |-> SearchOf(opts.params),
              method  |-> method,
              headers |-> BodyHeaders(authed, opts.body),
              body    |-> body.v]

\* a request whose headers are the caller's own map, extended in place
requestOptions_headers_callers == "headers"

\* lines 36-39: the headers of requestOptions are an object literal, a new
\* object that the caller's entries are copied into
requestOptions_headers == "literal"

\* The caller's headers map once request has run: lines 46 and 53 write to
\* requestOptions.headers, which is the caller's map only if that is the
\* object requestOptions holds.
HeadersAfterCall(path, opts, st) ==
    IF requestOptions_headers = "headers" /\ opts.headers # Undefined /\ ~RequestSync(path, opts, st).threw
    THEN RequestSync(path, opts, st).headers
    ELSE opts.headers

(***************************************************************************)
(* The transport.  fetch either resolves with a response (status, status   *)
(* text, body text) or rejects with a thrown value.                        *)
(***************************************************************************)
Response(status, statusText, body) ==
    [status |-> status, statusText |-> statusText, body |-> body]

Responses ==
    { Response(200, "OK", "{\"id\":1}"),
      Response(204, "No Content", ""),
      Response(200, "OK", "<html>"),
      Response(404, "Not Found", "{\"message\":\"not found\"}"),
      Response(404, "Not Found", "{\"message\":\"\"}"),
      Response(422, "Unprocessable Entity", "{\"message\":42}"),
      Response(401, "", "{}"),
      Response(403, "Forbidden", "null"),
      Response(500, "Internal Server Error", ""),
      Response(502, "Bad Gateway", "<html>") }

Failures ==
    { Thrown("TypeError", Str("Failed to fetch")),
      Thrown("AbortError", Str("")),
      Thrown("undefined", Undefined) }

Outcomes ==
    { [kind |-> "response", response |-> r] : r \in Responses }
    \cup { [kind |-> "failure", error |-> e] : e \in Failures }

\* the answers the catalog methods are tried with
CatalogOutcomes ==
    { [kind |-> "response", response |-> Response(200, "OK", "{\"id\":1}")],
      [kind |-> "response", response |-> Response(404, "Not Found", "{\"message\":\"not found\"}")],
      [kind |-> "failure", error |-> Thrown("TypeError", Str("Failed to fetch"))] }

\* response.ok
Ok(response) == response.status \in 200..299

JSON_parse(text) ==
    CASE text = "{\"id\":1}"                  -> [threw |-> FALSE, v |-> Obj("{id}", Undefined)]
      [] text = "{\"message\":\"not found\"}" -> [threw |-> FALSE, v |-> Obj("{message}", Str("not found"))]
      [] text = "{\"message\":\"\"}"          -> [threw |-> FALSE, v |-> Obj("{message}", Str(""))]
      [] text = "{\"message\":42}"            -> [threw |-> FALSE, v |-> Obj("{message}", Num("42"))]
      [] text = "{}"                          -> [threw |-> FALSE, v |-> Obj("{}", Undefined)]
      [] text = "null"                        -> [threw |-> FALSE, v |-> Null]
      [] OTHER                                -> [threw |-> TRUE]

\* line 61: await response.json().catch(() => null)
ResponseData(response) ==
    IF JSON_parse(response.body).threw THEN Null ELSE JSON_parse(response.body).v

(***************************************************************************)
(* request, continuation (services.js 59-82)                               *)
(***************************************************************************)
Resolved(value) == [kind |-> "resolved", value |-> value]

Rejected(error) == [kind |-> "rejected", error |-> error]

\* a catch block that wraps whatever it catches
CatchBlock_wrapAll(error) ==
    Rejected(ApiError(Or(error.message, Str("Network request failed")), 0, Null))

\* a catch block without the fallback message
CatchBlock_noFallback(error) ==
    IF error.name = "ApiError" THEN Rejected(error)
    ELSE Rejected(ApiError(error.message, 0, Null))

\* lines 72-82
CatchBlock(error) ==
    IF error.name = "ApiError" THEN Rejected(error)
    ELSE Rejected(ApiError(Or(error.message, Str("Network request failed")), 0, Null))

\* a try block that always reports the status text
TryBlock_statusText(outcome) ==
    IF outcome.kind = "failure" THEN [threw |-> TRUE, error |-> outcome.error]
    ELSE LET response     == outcome.response
             responseData == ResponseData(response)
         IN  IF ~Ok(response)
             THEN [threw |-> TRUE,
                   error |-> ApiError(Str(response.statusText), response.status, responseData)]
             ELSE [threw |-> FALSE, v |-> responseData]

\* a try block in which response.json() is awaited without its .catch
TryBlock_parseThrows(outcome) ==
    IF outcome.kind = "failure" THEN [threw |-> TRUE, error |-> outcome.error]
    ELSE LET response     == outcome.response
             responseData == ResponseData(response)
         IN  IF JSON_parse(response.body).threw
             THEN [threw |-> TRUE,
                   error |-> Thrown("SyntaxError", Str("Unexpected end of JSON input"))]
             ELSE IF ~Ok(response)
             THEN [threw |-> TRUE,
                   error |-> ApiError(Or(OptMessage(responseData), Str(response.statusText)),
                                      response.status, responseData)]
             ELSE [threw |-> FALSE, v |-> responseData]

\* lines 60-71
TryBlock(outcome) ==
    IF outcome.kind = "failure" THEN [threw |-> TRUE, error |-> outcome.error]
    ELSE LET response     == outcome.response
             responseData == ResponseData(response)
         IN  IF ~Ok(response)
             THEN [threw |-> TRUE,
                   error |-> ApiError(Or(OptMessage(responseData), Str(response.statusText)),
                                      response.status, responseData)]
             ELSE [threw |-> FALSE, v |-> responseData]

\* how the promise returned by request settles, given what fetch did
Continuation(outcome) ==
    IF TryBlock(outcome).threw
    THEN CatchBlock(TryBlock(outcome).error)
    ELSE Resolved(TryBlock(outcome).v)

(***************************************************************************)
(* Inputs                                                                  *)
(***************************************************************************)
\* the option bag of one call: a field the caller leaves out is Undefined
Options(method, body, params, headers) ==
    [method |-> method, body |-> body, params |-> params, headers |-> headers]

NoOptions == Options(Undefined, Undefined, Undefined, Undefined)

RequestOptions ==
    { NoOptions,
      Options(Str("POST"), Credentials, Undefined, Undefined),
      Options(Str("POST"), Circular, Undefined, Undefined),
      Options(Undefined, Undefined, Undefined,
              [NoHeaders EXCEPT !["Authorization"] = Str("Basic dXNlcg==")]),
      Options(Str("PUT"), UserData, Undefined,
              [NoHeaders EXCEPT !["Content-Type"] = Str("text/plain")]),
      Options(Undefined, Undefined, Params(<< <<<<"a">>, <<"1", " ">>>> >>), Undefined) }

RequestPaths == {"/user/me"}

\* bodies and header maps a caller passes to request
BuildBodies == {Undefined, Num("0"), Str(""), False, Credentials, FormData("avatar.png")}

BuildHeaders ==
    { Undefined,
      [NoHeaders EXCEPT !["Content-Type"] = Str("text/plain")],
      [NoHeaders EXCEPT !["Accept"] = Str("text/csv")],
      [NoHeaders EXCEPT !["Authorization"] = Str("Basic dXNlcg==")],
      [NoHeaders EXCEPT !["Content-Type"] = Str("multipart/form-data"), !["Accept"] = Str("text/csv")] }

BuildOptions ==
    {Options(Str("POST"), body, Undefined, headers) : body \in BuildBodies, headers \in BuildHeaders}

(***************************************************************************)
(* The resource catalogs, lines 86-236: one row per method that is an      *)
(* arrow straight to request, giving the path and the options it passes.   *)
(* auth.logout and auth.googleLogin do more than that and are actions of   *)
(* their own.                                                              *)
(***************************************************************************)
Row(name, path, opts) == [name |-> name, path |-> path, opts |-> opts]

Verb(method) == Options(Str(method), Undefined, Undefined, Undefined)

\* options that carry the body but leave the verb to its default
WithBody_asGet(method, body) == Options(Undefined, body, Undefined, Undefined)

WithBody(method, body) == Options(Str(method), body, Undefined, Undefined)

WithParams(params) == Options(Undefined, Undefined, params, Undefined)

user(id, data, file, status, days, role) ==
    { Row("user.getMe", "/user/me", NoOptions),
      Row("user.update", "/user/update", WithBody("PATCH", data)),
      Row("user.uploadAvatar", "/user/avatar", WithBody("POST", FormData(file))),
      Row("user.delete", "/user/delete", Verb("DELETE")),
      Row("user.getAll", "/user/", NoOptions),
      Row("user.getById", "/user/" \o id, NoOptions),
      Row("user.count", "/user/count", NoOptions),
      Row("user.countByRole", "/user/count/by-role", NoOptions),
      Row("user.countByStatus", "/user/count/by-status", NoOptions),
      Row("user.listByStatus", "/user/list/" \o status, NoOptions),
      Row("user.changeStatus", "/user/status/" \o id, WithBody("PATCH", StatusDays(status, days))),
      Row("user.changeRole", "/user/role/" \o id, WithBody("PATCH", Role(role))),
      Row("user.promote", ("/user/" \o id) \o "/promote", Verb("PUT")),
      Row("user.demote", ("/user/" \o id) \o "/demote", Verb("PUT")),
      Row("user.unban", ("/user/" \o id) \o "/unban", Verb("PUT")),
      Row("user.unsuspend", ("/user/" \o id) \o "/unsuspend", Verb("PUT")),
      Row("user.deleteByAdmin", "/user/delete/" \o id, Verb("DELETE")),
      Row("user.welcome", "/user/welcome", NoOptions) }

auth(userData, credentials, email, token, newPassword) ==
    { Row("auth.register", "/auth/register", WithBody("POST", userData)),
      Row("auth.login", "/auth/login", WithBody("POST", credentials)),
      Row("auth.forgotPassword", "/auth/forgot-password", WithBody("POST", Email(email))),
      Row("auth.resetPassword", "/auth/reset-password",
          WithBody("POST", TokenNewPassword(token, newPassword))) }

table(id, data, status) ==
    { Row("table.create", "/table/tables", WithBody("POST", data)),
      Row("table.getAll", "/table/tables", NoOptions),
      Row("table.get", "/table/tables/" \o id, NoOptions),
      Row("table.update", "/table/tables/" \o id, WithBody("PUT", data)),
      Row("table.delete", "/table/tables/" \o id, Verb("DELETE")),
      Row("table.changeStatus", ("/table/tables/" \o id) \o "/status", WithBody("PATCH", Status(status))),
      Row("table.getAvailable", "/table/tables/available", NoOptions),
      Row("table.stats", "/table/status", NoOptions),
      Row("table.reserved", "/table/reserved", NoOptions),
      Row("table.occupied", "/table/occupied", NoOptions),
      Row("table.myReservations", "/table/my-reservations", NoOptions),
      Row("table.myOccupied", "/table/my-occupied", NoOptions),
      Row("table.myTables", "/table/my-tables", NoOptions),
      Row("table.myTableByReservation", "/table/my-tables/" \o id, NoOptions) }

reservation(id, data, status, params) ==
    { Row("reservation.create", "/reservations", WithBody("POST", data)),
      Row("reservation.getAll", "/reservations", WithParams(params)),
      Row("reservation.get", "/reservations/" \o id, NoOptions),
      Row("reservation.update", "/reservations/" \o id, WithBody("PUT", data)),
      Row("reservation.delete", "/reservations/" \o id, Verb("DELETE")),
      Row("reservation.changeStatus", ("/reservations/" \o id) \o "/status",
          WithBody("PATCH", Status(status))),
      Row("reservation.checkAvailability", "/reservations/check-availability", WithBody("POST", data)),
      Row("reservation.upcoming", "/reservations/upcoming", WithParams(params)) }

payment(id, data, adjustment) ==
    { Row("payment.getAll", "/payments", NoOptions),
      Row("payment.get", "/payments/" \o id, NoOptions),
      Row("payment.create", "/payments", WithBody("POST", data)),
      Row("payment.update", "/payments/" \o id, WithBody("PUT", data)),
      Row("payment.adjust", ("/payments/" \o id) \o "/adjust", WithBody("POST", adjustment)),
      Row("payment.delete", "/payments/" \o id, Verb("DELETE")) }

notification(id, data, params) ==
    { Row("notification.getAll", "/notifications", WithParams(params)),
      Row("notification.unreadCount", "/notifications/unread-count", NoOptions),
      Row("notification.markRead", ("/notifications/" \o id) \o "/read", Verb("PATCH")),
      Row("notification.markAllRead", "/notifications/mark-all-read", Verb("PATCH")),
      Row("notification.create", "/notifications", WithBody("POST", data)),
      Row("notification.delete", "/notifications/" \o id, Verb("DELETE")) }

menu(id, data, params) ==
    { Row("menu.getCategories", "/menu/categories", NoOptions),
      Row("menu.getCategory", "/menu/categories/" \o id, NoOptions),
      Row("menu.createCategory", "/menu/categories", WithBody("POST", data)),
      Row("menu.updateCategory", "/menu/categories/" \o id, WithBody("PUT", data)),
      Row("menu.deleteCategory", "/menu/categories/" \o id, Verb("DELETE")),
      Row("menu.getItems", "/menu/items", WithParams(params)),
      Row("menu.getItem", "/menu/items/" \o id, NoOptions),
      Row("menu.createItem", "/menu/items", WithBody("POST", data)),
      Row("menu.updateItem", "/menu/items/" \o id, WithBody("PUT", data)),
      Row("menu.deleteItem", "/menu/items/" \o id, Verb("DELETE")),
      Row("menu.getOrders", "/menu/orders", WithParams(params)),
      Row("menu.getOrder", "/menu/orders/" \o id, NoOptions),
      Row("menu.createOrder", "/menu/orders", WithBody("POST", data)),
      Row("menu.updateOrder", "/menu/orders/" \o id, WithBody("PUT", data)),
      Row("menu.deleteOrder", "/menu/orders/" \o id, Verb("DELETE")),
      Row("menu.getOrderItems", "/menu/order-items", WithParams(params)),
      Row("menu.getOrderItem", "/menu/order-items/" \o id, NoOptions),
      Row("menu.createOrderItem", "/menu/order-items", WithBody("POST", data)),
      Row("menu.updateOrderItem", "/menu/order-items/" \o id, WithBody("PUT", data)),
      Row("menu.deleteOrderItem", "/menu/order-items/" \o id, Verb("DELETE")) }

\* well-formed arguments for the catalog methods
CatalogParams == {Undefined, Params(<< <<<<"a">>, <<"1">>>> >>)}

\* lines 239-247: every catalog row, for every choice of arguments
api ==
    UNION { user("7", UserData, "avatar.png", "active", "3", "admin")
              \cup auth(UserData, Credentials, "a@b.c", "t", "pw")
              \cup table("7", UserData, "active")
              \cup reservation("7", UserData, "active", params)
              \cup payment("7", UserData, UserData)
              \cup notification("7", UserData, params)
              \cup menu("7", UserData, params) : params \in CatalogParams }

\* what overlapping calls are made and answered with
ConcurrentOptions ==
    { NoOptions,
      Options(Str("POST"), Credentials, Undefined, Undefined),
      Options(Undefined, Undefined, Undefined,
              [NoHeaders EXCEPT !["Authorization"] = Str("Basic dXNlcg==")]) }

ConcurrentOutcomes ==
    { [kind |-> "response", response |-> Response(200, "OK", "{\"id\":1}")],
      [kind |-> "response", response |-> Response(401, "", "{}")],
      [kind |-> "failure", error |-> Thrown("TypeError", Str("Failed to fetch"))] }

\* names and values of query parameters, spelled as characters
ParamNames == {<<"a">>, <<"b", "&">>, <<>>}

ParamValues == {<<"1">>, <<" ", "=">>, <<"%", "2", "6">>, <<"a", "+", "b">>, <<"/", "?">>, <<>>}

RECURSIVE EntriesOfLength(_)
EntriesOfLength(n) ==
    IF n = 0 THEN {<<>>}
    ELSE {<<<<k, v>>>> \o rest : k \in ParamNames, v \in ParamValues, rest \in EntriesOfLength(n - 1)}

\* what a caller passes as params: nothing, or an object of up to MaxEntries entries
ParamsInputs ==
    {Undefined} \cup {Params(es) : es \in UNION {EntriesOfLength(n) : n \in 0..MaxEntries}}

Tokens == {Str("abc"), Str("xyz"), Str("")}

(***************************************************************************)
(* State                                                                   *)
(***************************************************************************)
NoOutcome == [kind |-> "none"]

\* the page that loaded the client
Origin == "http://localhost:3000/"

NoError == "none"

\* lines 265 and 770: the landing page as first rendered
Home == [isMenuOpen |-> FALSE, selectedRole |-> "ADMIN", error |-> NoError]

\* lines 268-313: the roles of the dashboard preview
Roles == {"ADMIN", "WAITER", "CHEF", "CASHIER"}

\* lines 836-866: the anchors of the navigation links
NavLinks == {"#features", "#dashboard", "#benefits", "#testimonials"}

\* the landing page is the one shown
HomeIsMounted == location \in {Origin} \cup {Origin \o href : href \in NavLinks}

\* lines 887 and 893: `router` is declared nowhere (useRouter is imported on
\* line 261 and never called), so evaluating it throws
router_push(href) == [threw |-> TRUE, error |-> "ReferenceError: router is not defined"]

NoDelivery ==
    [op |-> "none", storeAtCall |-> Null, outcome |-> NoOutcome, result |-> [kind |-> "none"]]

\* a fresh browser profile: nothing stored under "token", nothing in flight
Init ==
    /\ store = Null
    /\ calls = EmptyBag
    /\ delivered = NoDelivery
    /\ lastOp = [op |-> "none", arg |-> Undefined]
    /\ location = Origin
    /\ page = Home

(***************************************************************************)
(* Token store operations                                                  *)
(***************************************************************************)
setAuthToken(token) ==
    /\ store' = localStorage_setItem(store, token)
    /\ lastOp' = [op |-> "setAuthToken", arg |-> token]
    /\ delivered' = NoDelivery
    /\ UNCHANGED <<calls, location, page>>

\* a clearing that also takes the token off the calls in flight
clearAuthToken_stripsInFlight ==
    /\ store' = localStorage_removeItem(store)
    /\ lastOp' = [op |-> "clearAuthToken", arg |-> Undefined]
    /\ delivered' = NoDelivery
    /\ calls' = BagOfAll(LAMBDA c : [c EXCEPT !.sent.headers["Authorization"] = Undefined], calls)
    /\ UNCHANGED <<location, page>>

clearAuthToken ==
    /\ store' = localStorage_removeItem(store)
    /\ lastOp' = [op |-> "clearAuthToken", arg |-> Undefined]
    /\ delivered' = NoDelivery
    /\ UNCHANGED <<calls, location, page>>

(***************************************************************************)
(* Invoking request.  `op` names the caller, st0 is the store when the     *)
(* caller was called and st1 the store when request runs.  The call either *)
(* reaches fetch and joins the calls in flight, or throws before fetch and *)
(* rejects at once with what was thrown.  `delivered` holds what the step  *)
(* handed to a caller, NoDelivery when the step settled no call.           *)
(* `fetches` counts the calls of fetch made for the invocation (line 60).  *)
(***************************************************************************)
CallRequest(op, path, opts, st0, st1) ==
    LET r == RequestSync(path, opts, st1)
    IN  /\ UNCHANGED <<location, page>>
        /\ IF r.threw
           THEN /\ delivered' = [op |-> op, storeAtCall |-> st0,
                                 outcome |-> NoOutcome, result |-> Rejected(r.error)]
                /\ calls' = calls
           ELSE /\ calls' = calls (+) SetToBag({[op |-> op, path |-> path, opts |-> opts,
                                                  storeAtCall |-> st0, storeAtFetch |-> st1,
                                                  sent |-> r, fetches |-> 1]})
                /\ delivered' = NoDelivery

request(path, opts) ==
    /\ CallRequest("request", path, opts, store, store)
    /\ UNCHANGED <<store, lastOp>>

auth_register(userData) ==
    /\ CallRequest("auth.register", "/auth/register",
                   Options(Str("POST"), userData, Undefined, Undefined), store, store)
    /\ UNCHANGED <<store, lastOp>>

auth_login(credentials) ==
    /\ CallRequest("auth.login", "/auth/login",
                   Options(Str("POST"), credentials, Undefined, Undefined), store, store)
    /\ UNCHANGED <<store, lastOp>>

\* lines 89-93
user_uploadAvatar(file) ==
    /\ CallRequest("user.uploadAvatar", "/user/avatar",
                   Options(Str("POST"), FormData(file), Undefined, Undefined), store, store)
    /\ UNCHANGED <<store, lastOp>>

\* line 164
reservation_getAll(params) ==
    /\ CallRequest("reservation.getAll", "/reservations",
                   Options(Undefined, Undefined, params, Undefined), store, store)
    /\ UNCHANGED <<store, lastOp>>

\* a catalog method that calls request a second time
api_method_twice(m) ==
    LET c == [op |-> m.name, path |-> m.path, opts |-> m.opts,
              storeAtCall |-> store, storeAtFetch |-> store,
              sent |-> RequestSync(m.path, m.opts, store), fetches |-> 1]
    IN  /\ calls' = calls (+) (SetToBag({c}) (+) SetToBag({c}))
        /\ delivered' = NoDelivery
        /\ UNCHANGED <<store, lastOp, location, page>>

\* lines 86-236: a catalog method that is an arrow straight to request
api_method(m) ==
    /\ CallRequest(m.name, m.path, m.opts, store, store)
    /\ UNCHANGED <<store, lastOp>>

\* line 134: the assignment is the arrow's value, so the method returns the
\* address it navigates to
auth_googleLogin ==
    /\ location' = API_BASE \o "/auth/google/login"
    /\ delivered' = [op |-> "auth.googleLogin", storeAtCall |-> store, outcome |-> NoOutcome,
                     result |-> [kind |-> "returned", value |-> Str(location')]]
    /\ UNCHANGED <<store, calls, lastOp, page>>

\* a logout that sends its request and leaves the token where it is
auth_logout_keepsToken ==
    /\ CallRequest("auth.logout", "/auth/logout", NoOptions, store, store)
    /\ lastOp' = [op |-> "auth.logout", arg |-> Undefined]
    /\ UNCHANGED store

\* a logout that sends its request first and clears afterwards
auth_logout_requestFirst ==
    /\ CallRequest("auth.logout", "/auth/logout", NoOptions, store, store)
    /\ store' = localStorage_removeItem(store)
    /\ lastOp' = [op |-> "auth.logout", arg |-> Undefined]

auth_logout ==
    /\ store' = localStorage_removeItem(store)
    /\ CallRequest("auth.logout", "/auth/logout", NoOptions, store, store')
    /\ lastOp' = [op |-> "auth.logout", arg |-> Undefined]

(***************************************************************************)
(* The landing page (Home, lines 769-898, and DashboardPreview, line 265). *)
(* Each handler runs while the page is shown.                              *)
(***************************************************************************)
PageOnly == UNCHANGED <<store, calls, delivered, lastOp>>

\* line 797
menuButton_onClick ==
    /\ HomeIsMounted
    /\ page' = [page EXCEPT !.isMenuOpen = ~page.isMenuOpen]
    /\ UNCHANGED location
    /\ PageOnly

\* a link that leaves the menu as it is
navLink_onClick_keepsMenu(href) ==
    /\ HomeIsMounted
    /\ location' = Origin \o href
    /\ UNCHANGED page
    /\ PageOnly

\* lines 836-866: the handler closes the menu, the anchor moves the address
navLink_onClick(href) ==
    /\ HomeIsMounted
    /\ page' = [page EXCEPT !.isMenuOpen = FALSE]
    /\ location' = Origin \o href
    /\ PageOnly

\* lines 886-897: the handler of a mobile Login or Sign Up button
mobileAuthButton_onClick(href) ==
    /\ HomeIsMounted
    /\ IF router_push(href).threw
       THEN /\ page' = [page EXCEPT !.error = router_push(href).error]
            /\ UNCHANGED location
       ELSE /\ location' = Origin \o href
            /\ UNCHANGED page
    /\ PageOnly

\* lines 871-882: the desktop buttons are wrapped in links
Link_onClick(href) ==
    /\ HomeIsMounted
    /\ location' = Origin \o href
    /\ UNCHANGED page
    /\ PageOnly

\* line 683
select_onChange(value) ==
    /\ HomeIsMounted
    /\ page' = [page EXCEPT !.selectedRole = value]
    /\ UNCHANGED location
    /\ PageOnly

(***************************************************************************)
(* The transport answers the call c in flight and request's continuation   *)
(* settles the promise its caller holds.                                   *)
(***************************************************************************)
\* a continuation that settles every call in flight with the one answer
FetchSettles_settlesAll(c, outcome) ==
    /\ BagIn(c, calls)
    /\ delivered' = [op |-> c.op, storeAtCall |-> c.storeAtCall,
                     outcome |-> outcome, result |-> Continuation(outcome)]
    /\ calls' = EmptyBag
    /\ UNCHANGED <<store, lastOp, location, page>>

\* a continuation that stores a token when login or registration succeeds
FetchSettles_storesToken(c, outcome) ==
    /\ BagIn(c, calls)
    /\ delivered' = [op |-> c.op, storeAtCall |-> c.storeAtCall,
                     outcome |-> outcome, result |-> Continuation(outcome)]
    /\ calls' = calls (-) SetToBag({c})
    /\ store' = IF c.op \in {"auth.login", "auth.register"} /\ Continuation(outcome).kind = "resolved"
                THEN Str("abc") ELSE store
    /\ UNCHANGED <<lastOp, location, page>>

\* a continuation that puts the token back when the logout call fails
FetchSettles_restoresToken(c, outcome) ==
    /\ BagIn(c, calls)
    /\ delivered' = [op |-> c.op, storeAtCall |-> c.storeAtCall,
                     outcome |-> outcome, result |-> Continuation(outcome)]
    /\ calls' = calls (-) SetToBag({c})
    /\ store' = IF c.op = "auth.logout" /\ Continuation(outcome).kind = "rejected"
                THEN c.storeAtCall ELSE store
    /\ UNCHANGED <<lastOp, location, page>>

\* a continuation that sends the request again when the network fails
FetchSettles_retries(c, outcome) ==
    /\ BagIn(c, calls)
    /\ IF outcome.kind = "failure" /\ c.fetches < 2
       THEN /\ delivered' = NoDelivery
            /\ calls' = (calls (-) SetToBag({c})) (+) SetToBag({[c EXCEPT !.fetches = @ + 1]})
       ELSE /\ delivered' = [op |-> c.op, storeAtCall |-> c.storeAtCall,
                             outcome |-> outcome, result |-> Continuation(outcome)]
            /\ calls' = calls (-) SetToBag({c})
    /\ UNCHANGED <<store, lastOp, location, page>>

\* a continuation that drops the token when the server refuses it
FetchSettles_clearsOnUnauthorized(c, outcome) ==
    /\ BagIn(c, calls)
    /\ delivered' = [op |-> c.op, storeAtCall |-> c.storeAtCall,
                     outcome |-> outcome, result |-> Continuation(outcome)]
    /\ calls' = calls (-) SetToBag({c})
    /\ store' = IF outcome.kind = "response" /\ outcome.response.status \in {401, 403}
                THEN Null ELSE store
    /\ UNCHANGED <<lastOp, location, page>>

FetchSettles(c, outcome) ==
    /\ BagIn(c, calls)
    /\ delivered' = [op |-> c.op, storeAtCall |-> c.storeAtCall,
                     outcome |-> outcome, result |-> Continuation(outcome)]
    /\ calls' = calls (-) SetToBag({c})
    /\ UNCHANGED <<store, lastOp, location, page>>

Next ==
    \/ \E token \in Tokens : setAuthToken(token)
    \/ clearAuthToken
    \/ \E path \in RequestPaths, opts \in RequestOptions :
           BagCardinality(calls) < MaxInFlight /\ request(path, opts)
    \/ \E userData \in {UserData} : BagCardinality(calls) < MaxInFlight /\ auth_register(userData)
    \/ \E credentials \in {Credentials, Circular} :
           BagCardinality(calls) < MaxInFlight /\ auth_login(credentials)
    \/ BagCardinality(calls) < MaxInFlight /\ auth_logout
    \/ \E c \in BagToSet(calls), outcome \in Outcomes : FetchSettles(c, outcome)

Spec == Init /\ [][Next]_vars

(***************************************************************************)
(* The executor's URL composition on its own: one call at a time, made     *)
(* through reservation.getAll with every params input.                     *)
(***************************************************************************)
NextUrl ==
    \/ \E params \in ParamsInputs : calls = EmptyBag /\ reservation_getAll(params)
    \/ \E c \in BagToSet(calls), outcome \in Outcomes : FetchSettles(c, outcome)

SpecUrl == Init /\ [][NextUrl]_vars

(***************************************************************************)
(* The executor's headers and body on their own: one call at a time, with  *)
(* every body and header map, under every content of the token store.      *)
(***************************************************************************)
NextBuild ==
    \/ \E token \in Tokens : setAuthToken(token)
    \/ clearAuthToken
    \/ \E path \in RequestPaths, opts \in BuildOptions : calls = EmptyBag /\ request(path, opts)
    \/ \E file \in {"avatar.png"} : calls = EmptyBag /\ user_uploadAvatar(file)
    \/ \E c \in BagToSet(calls), outcome \in Outcomes : FetchSettles(c, outcome)

SpecBuild == Init /\ [][NextBuild]_vars

(***************************************************************************)
(* The catalogs on their own: one method call at a time, every method.     *)
(***************************************************************************)
NextCatalog ==
    \/ \E m \in api : calls = EmptyBag /\ api_method(m)
    \/ calls = EmptyBag /\ auth_logout
    \/ auth_googleLogin
    \/ \E c \in BagToSet(calls), outcome \in CatalogOutcomes : FetchSettles(c, outcome)

SpecCatalog == Init /\ [][NextCatalog]_vars

(***************************************************************************)
(* Overlapping calls: up to MaxConcurrent calls in flight, answered in any *)
(* order, while the token store is written.                                *)
(***************************************************************************)
NextConcurrent ==
    \/ \E token \in Tokens : setAuthToken(token)
    \/ clearAuthToken
    \/ \E path \in RequestPaths, opts \in ConcurrentOptions :
           BagCardinality(calls) < MaxConcurrent /\ request(path, opts)
    \/ BagCardinality(calls) < MaxConcurrent /\ auth_logout
    \/ \E c \in BagToSet(calls), outcome \in ConcurrentOutcomes : FetchSettles(c, outcome)

SpecConcurrent == Init /\ [][NextConcurrent]_vars

(***************************************************************************)
(* The landing page on its own.                                            *)
(***************************************************************************)
NextPage ==
    \/ menuButton_onClick
    \/ \E href \in NavLinks : navLink_onClick(href)
    \/ \E href \in {"login", "signup"} : mobileAuthButton_onClick(href)
    \/ \E href \in {"login", "signup"} : Link_onClick(href)
    \/ \E value \in Roles : select_onChange(value)

SpecPage == Init /\ [][NextPage]_vars

TypeOK ==
    /\ store \in {Null} \cup Tokens
    /\ IsABag(calls)
    /\ BagCardinality(calls) <= MaxInFlight
    /\ page.isMenuOpen \in BOOLEAN
    /\ delivered.result.kind \in {"none", "resolved", "rejected", "returned"}
    /\ location \in {Origin, API_BASE \o "/auth/google/login"}
    /\ page.selectedRole \in Roles

(***************************************************************************)
(* Properties                                                              *)
(***************************************************************************)
InFlight == BagToSet(calls)

Bearer(token) == Str("Bearer " \o token.v)

CallerHeaders(c) == Default(c.opts.headers, NoHeaders)

\* C1 (as stated): whenever request is invoked while the store holds a
\* string t, the empty string included, the request handed to the transport
\* carries Authorization: Bearer t.
C1_StoredTokenIsSent ==
    \A c \in InFlight :
        c.storeAtFetch # Null => c.sent.headers["Authorization"] = Bearer(c.storeAtFetch)

\* C1 (amended): whenever request is invoked while the store holds a
\* non-empty string t, the request handed to the transport carries
\* Authorization: Bearer t; a stored empty string is treated as no token,
\* and the executor adds no header for it.
C1_NonEmptyTokenIsSent ==
    \A c \in InFlight :
        /\ (c.storeAtFetch # Null /\ c.storeAtFetch.v # "")
               => c.sent.headers["Authorization"] = Bearer(c.storeAtFetch)
        /\ c.storeAtFetch = Str("")
               => c.sent.headers["Authorization"] = CallerHeaders(c)["Authorization"]

C1_Witness ==
    \E c \in InFlight :
        /\ c.op = "request"
        /\ c.storeAtFetch = Str("abc")
        /\ CallerHeaders(c)["Authorization"] = Str("Basic dXNlcg==")
        /\ c.sent.headers["Authorization"] = Str("Bearer abc")

\* C2 (as stated): whenever request is invoked while the store holds no
\* token, the request handed to the transport has no Authorization header,
\* whatever headers the caller supplied.
C2_NoTokenNoAuthorization ==
    \A c \in InFlight :
        c.storeAtFetch = Null => c.sent.headers["Authorization"] = Undefined

\* C2 (amended): whenever request is invoked while the store holds no
\* token, the executor adds no Authorization header: the request carries one
\* only if the caller's headers option contains an Authorization entry, and
\* then with the caller's value.
C2_NoTokenOnlyCallerAuthorization ==
    \A c \in InFlight :
        c.storeAtFetch = Null
            => c.sent.headers["Authorization"] = CallerHeaders(c)["Authorization"]

C2_Witness ==
    \E c \in InFlight :
        /\ c.storeAtFetch = Null
        /\ c.opts.headers = Undefined
        /\ c.opts.body = Credentials
        /\ c.sent.headers["Authorization"] = Undefined

\* C3: once auth.logout has been called and until a token is set again, the
\* store is empty: while the /auth/logout call is in flight and after it has
\* settled, whether it succeeded, got a failure status or failed in the
\* network.
C3_LogoutLeavesStoreEmpty ==
    lastOp.op = "auth.logout" => getAuthToken(store) = Null

C3_Witness ==
    /\ lastOp.op = "auth.logout"
    /\ delivered.op = "auth.logout"
    /\ delivered.storeAtCall = Str("abc")
    /\ delivered.outcome.kind = "failure"
    /\ delivered.result.kind = "rejected"
    /\ getAuthToken(store) = Null

\* C4: every /auth/logout request was handed to the transport with the
\* store already empty, whatever token was held when logout was called.
C4_StoreClearedBeforeLogoutRequest ==
    \A c \in InFlight : c.op = "auth.logout" => c.storeAtFetch = Null

C4_Witness ==
    \E c \in InFlight :
        /\ c.op = "auth.logout"
        /\ c.storeAtCall = Str("xyz")
        /\ c.storeAtFetch = Null
        /\ c.sent.url = "http://127.0.0.1:5000/api/auth/logout"

\* C5: the store is one overwritable cell: getAuthToken returns the argument
\* of the most recent setAuthToken when no clearAuthToken (nor logout, which
\* calls it) followed, and nothing otherwise, whatever requests were invoked
\* or settled in between.
C5_StoreIsOneCell ==
    IF lastOp.op = "setAuthToken"
    THEN getAuthToken(store) = lastOp.arg
    ELSE getAuthToken(store) = Null

C5_Witness ==
    /\ lastOp = [op |-> "setAuthToken", arg |-> Str("xyz")]
    /\ getAuthToken(store) = Str("xyz")
    /\ \E c \in InFlight : c.op = "auth.logout" /\ c.storeAtCall = Str("abc")

\* C6 (as stated): when auth.login or auth.register, called with the store
\* empty, completes successfully, the store holds a token.
C6_LoginStoresToken ==
    ( /\ delivered.op \in {"auth.login", "auth.register"}
      /\ delivered.storeAtCall = Null
      /\ delivered.result.kind = "resolved" )
        => getAuthToken(store) # Null

LoginStep ==
    \/ \E credentials \in {Credentials, Circular} : auth_login(credentials)
    \/ \E userData \in {UserData} : auth_register(userData)
    \/ \E c \in InFlight, outcome \in Outcomes :
          c.op \in {"auth.login", "auth.register"} /\ FetchSettles(c, outcome)

\* C6 (amended): auth.login and auth.register never write the store, neither
\* when they are called nor when their call settles, successfully or not: the
\* store holds afterwards what it held before, and holds a token only when
\* the caller stores one with setAuthToken.
C6_LoginLeavesStore ==
    [][LoginStep => store' = store]_vars

C6_Witness ==
    /\ delivered.op = "auth.login"
    /\ delivered.storeAtCall = Null
    /\ delivered.result.kind = "resolved"
    /\ delivered.result.value = Obj("{id}", Undefined)
    /\ getAuthToken(store) = Null

\* what the caller of a settled call holds when the call was rejected
Error == delivered.result.error

AnsweredWithFailure ==
    delivered.outcome.kind = "response" /\ ~Ok(delivered.outcome.response)

NotFound == Response(404, "Not Found", "{\"message\":\"not found\"}")

\* C7 (as stated): a response with a failure status rejects the call with an
\* ApiError whose status is the response's, whose data is the parsed payload
\* (null when the body is empty or not JSON) and whose message is the
\* payload's message field whenever the payload has one, the status text
\* otherwise.
C7_FailureStatusError ==
    AnsweredWithFailure =>
        LET response == delivered.outcome.response
            payload  == ResponseData(response)
        IN  /\ delivered.result.kind = "rejected"
            /\ Error.name = "ApiError"
            /\ Error.status = response.status
            /\ Error.data = payload
            /\ Error.message = IF OptMessage(payload) # Undefined
                               THEN Str(JSString(OptMessage(payload)))
                               ELSE Str(response.statusText)

\* C7 (amended): a response with a failure status rejects the call with an
\* ApiError, not re-wrapped, whose status is the response's, whose data is
\* the parsed payload (null when the body is empty or not JSON) and whose
\* message is the payload's message field whenever the payload has a
\* non-empty one, the status text otherwise (also when the payload's message
\* is the empty string); 404 with {"message": "not found"} gives message
\* "not found", status 404 and that payload as data.
C7_FailureStatusErrorNonEmptyMessage ==
    AnsweredWithFailure =>
        LET response == delivered.outcome.response
            payload  == ResponseData(response)
        IN  /\ delivered.result.kind = "rejected"
            /\ Error.name = "ApiError"
            /\ Error.status = response.status
            /\ Error.data = payload
            /\ Error.message = IF Truthy(OptMessage(payload))
                               THEN Str(JSString(OptMessage(payload)))
                               ELSE Str(response.statusText)
            /\ response = NotFound =>
                   Error = [name |-> "ApiError", message |-> Str("not found"), status |-> 404,
                            data |-> Obj("{message}", Str("not found"))]

C7_Witness ==
    /\ delivered.outcome.kind = "response"
    /\ delivered.outcome.response = NotFound
    /\ delivered.result.kind = "rejected"
    /\ Error.message = Str("not found")
    /\ Error.status = 404

\* C8: every call that fails without a failure-status response, in any step
\* of the executor, is rejected with an ApiError of status 0, a non-empty
\* message and no payload; the caller never holds an unstructured failure.
C8_EveryFailureIsStructured ==
    (delivered.result.kind = "rejected" /\ delivered.outcome.kind # "response") =>
        /\ Error.name = "ApiError"
        /\ Error.status = 0
        /\ Error.message.v # ""
        /\ Error.data = Null

\* C9: when fetch itself rejects, the call is rejected with an ApiError of
\* status 0, no payload, and a non-empty message: the failure's own message,
\* or "Network request failed" when the failure has none.
C9_NetworkFailureIsStatusZero ==
    delivered.outcome.kind = "failure" =>
        /\ delivered.result.kind = "rejected"
        /\ Error.name = "ApiError"
        /\ Error.status = 0
        /\ Error.data = Null
        /\ Error.message.v # ""
        /\ Error.message = IF delivered.outcome.error.message \in {Undefined, Str("")}
                           THEN Str("Network request failed")
                           ELSE delivered.outcome.error.message

C9_Witness ==
    /\ delivered.outcome.kind = "failure"
    /\ delivered.outcome.error = Thrown("AbortError", Str(""))
    /\ delivered.result.kind = "rejected"
    /\ Error = [name |-> "ApiError", message |-> Str("Network request failed"),
                status |-> 0, data |-> Null]

\* C10: an ApiError produced by the executor has status 0 exactly when no
\* response was obtained; one raised after a response carries the
\* response's status, a value in 1..599.
C10_StatusZeroIffNoResponse ==
    (delivered.result.kind = "rejected" /\ Error.name = "ApiError") =>
        /\ Error.status = 0 <=> delivered.outcome.kind # "response"
        /\ delivered.outcome.kind = "response" =>
               /\ Error.status = delivered.outcome.response.status
               /\ Error.status \in 1..599

C10_Witness ==
    /\ delivered.result.kind = "rejected"
    /\ delivered.outcome.kind = "response"
    /\ delivered.outcome.response.status = 500
    /\ Error.name = "ApiError"
    /\ Error.status = 500

\* C11: a response whose body is empty or is not JSON never surfaces the
\* parse failure: with a success status the call resolves with null, with a
\* failure status it is rejected with the response's own status and null
\* data.
C11_UnparsableBodyIsNull ==
    (delivered.outcome.kind = "response" /\ JSON_parse(delivered.outcome.response.body).threw) =>
        IF Ok(delivered.outcome.response)
        THEN delivered.result = Resolved(Null)
        ELSE /\ delivered.result.kind = "rejected"
             /\ Error.name = "ApiError"
             /\ Error.status = delivered.outcome.response.status
             /\ Error.data = Null

C11_Witness ==
    /\ delivered.outcome.kind = "response"
    /\ delivered.outcome.response = Response(204, "No Content", "")
    /\ delivered.result = Resolved(Null)

Card == BagCardinality(calls)

InvokeStep ==
    \/ \E path \in RequestPaths, opts \in RequestOptions : request(path, opts)
    \/ \E userData \in {UserData} : auth_register(userData)
    \/ \E credentials \in {Credentials, Circular} : auth_login(credentials)
    \/ auth_logout

SettleStep == \E c \in InFlight, outcome \in Outcomes : FetchSettles(c, outcome)

SettlesOnce ==
    /\ Card' = Card - 1
    /\ \A c \in BagToSet(calls') : CopiesIn(c, calls') <= CopiesIn(c, calls)
    /\ \/ delivered'.result.kind = "resolved"
       \/ delivered'.result.kind = "rejected" /\ delivered'.result.error.name = "ApiError"

\* C18 (as stated): every invocation of request issues exactly one network
\* call, and every call settles exactly once, with a payload or one
\* structured error, without another network call being issued.
C18_ExactlyOneNetworkCall ==
    [][ /\ InvokeStep => (Card' = Card + 1 /\ delivered' = NoDelivery)
        /\ SettleStep => SettlesOnce ]_vars

\* C18 (amended): request never retries.  An invocation issues exactly one
\* network call, unless it fails before reaching the transport (a body that
\* cannot be serialised), and then it issues none and is rejected at once;
\* a call handed to the transport settles exactly once, with the parsed
\* payload or one structured error, and no further network call is issued
\* for it, whatever the outcome.
C18_AtMostOneNetworkCall ==
    [][ /\ InvokeStep =>
              \/ Card' = Card + 1 /\ delivered' = NoDelivery
              \/ /\ Card' = Card
                 /\ delivered'.outcome = NoOutcome
                 /\ delivered'.result.kind = "rejected"
        /\ SettleStep => SettlesOnce ]_vars

C18_Witness ==
    /\ delivered.op = "request"
    /\ delivered.outcome.kind = "failure"
    /\ delivered.result.kind = "rejected"
    /\ calls = EmptyBag

\* C19: no step of the request executor writes the token store: neither the
\* invocation of request nor the settlement of any call, whatever the
\* outcome, a 401 or 403 answer included.
C19_RequestNeverWritesStore ==
    [][ ((\E path \in RequestPaths, opts \in RequestOptions : request(path, opts)) \/ SettleStep)
            => store' = store ]_vars

C19_Witness ==
    /\ delivered.op = "request"
    /\ delivered.outcome.kind = "response"
    /\ delivered.outcome.response.status = 401
    /\ delivered.result.kind = "rejected"
    /\ delivered.storeAtCall = Str("abc")
    /\ getAuthToken(store) = Str("abc")

\* C12: a request invoked without params goes to base + path exactly, with
\* nothing after the path.
C12_NoParamsNoQuery ==
    \A c \in InFlight :
        c.opts.params = Undefined =>
            /\ c.sent.url = "http://127.0.0.1:5000/api" \o c.path
            /\ c.sent.search = <<>>

C12_Witness ==
    \E c \in InFlight :
        /\ c.op = "request"
        /\ c.opts.params = Undefined
        /\ c.sent.url = "http://127.0.0.1:5000/api/user/me"

HasParams(c) == c.opts.params # Undefined

\* C13: a "?" is appended only for params that hold at least one entry: with
\* an empty params object the URL is base + path, with entries it is
\* base + path + "?" + the encoded entries.
C13_QueryOnlyWhenNonEmpty ==
    \A c \in InFlight :
        HasParams(c) =>
            IF c.opts.params.entries = <<>>
            THEN c.sent.url = API_BASE \o c.path
            ELSE c.sent.url = (API_BASE \o c.path) \o "?" \o Join(c.sent.search)

\* C14: for params with at least one entry, what follows the "?" of the URL
\* reads back, through the urlencoded parser, as the original entries: same
\* names, same values, same order.
C14_QueryRoundTrips ==
    \A c \in InFlight :
        (HasParams(c) /\ c.opts.params.entries # <<>>) =>
            /\ c.sent.url = (API_BASE \o c.path) \o "?" \o Join(c.sent.search)
            /\ ParseQuery(c.sent.search) = c.opts.params.entries

C14_Witness ==
    \E c \in InFlight :
        /\ HasParams(c)
        /\ c.opts.params.entries = << <<<<"b", "&">>, <<" ", "=">>>>, <<<<"a">>, <<"%", "2", "6">>>> >>
        /\ c.sent.url = "http://127.0.0.1:5000/api/reservations?b%26=+%3D&a=%2526"
        /\ ParseQuery(c.sent.search) = c.opts.params.entries

\* the Authorization value the executor sends for call c
SentAuthorization(c) ==
    IF Truthy(c.storeAtFetch) THEN Bearer(c.storeAtFetch) ELSE CallerHeaders(c)["Authorization"]

\* C15: a FormData body goes to the transport as it is and without a
\* Content-Type header, whether the default or a caller's override would
\* have supplied one; the other headers are sent: the caller's, and
\* Authorization.
C15_MultipartHasNoContentType ==
    \A c \in InFlight :
        (c.opts.body # Undefined /\ IsFormData(c.opts.body)) =>
            /\ c.sent.body = c.opts.body
            /\ c.sent.headers["Content-Type"] = Undefined
            /\ c.sent.headers["Accept"] = CallerHeaders(c)["Accept"]
            /\ c.sent.headers["Authorization"] = SentAuthorization(c)

C15_Witness ==
    \E c \in InFlight :
        /\ c.opts.body = FormData("avatar.png")
        /\ CallerHeaders(c)["Content-Type"] = Str("multipart/form-data")
        /\ c.storeAtFetch = Str("abc")
        /\ c.sent.body = FormData("avatar.png")
        /\ c.sent.headers =
               [NoHeaders EXCEPT !["Accept"] = Str("text/csv"), !["Authorization"] = Str("Bearer abc")]

NotMultipart(c) == c.opts.body = Undefined \/ ~IsFormData(c.opts.body)

SentContentType(c) ==
    IF CallerHeaders(c)["Content-Type"] # Undefined
    THEN CallerHeaders(c)["Content-Type"]
    ELSE Str("application/json")

\* C16 (as stated): a request whose body is not multipart carries
\* Content-Type: application/json unless the caller supplies a Content-Type,
\* which is then the one sent; every other header the caller supplies is
\* sent with the caller's value.
C16_CallerHeadersAreSent ==
    \A c \in InFlight :
        NotMultipart(c) =>
            /\ c.sent.headers["Content-Type"] = SentContentType(c)
            /\ \A h \in HeaderNames \ {"Content-Type"} :
                   CallerHeaders(c)[h] # Undefined => c.sent.headers[h] = CallerHeaders(c)[h]

\* C16 (amended): a request whose body is not multipart carries
\* Content-Type: application/json unless the caller supplies a Content-Type,
\* which is then the one sent; every other header the caller supplies is
\* sent with the caller's value, except Authorization while a non-empty
\* token is stored, which is sent as Bearer <token>.
C16_CallerHeadersAreSentButAuthorization ==
    \A c \in InFlight :
        NotMultipart(c) =>
            /\ c.sent.headers["Content-Type"] = SentContentType(c)
            /\ \A h \in HeaderNames \ {"Content-Type", "Authorization"} :
                   CallerHeaders(c)[h] # Undefined => c.sent.headers[h] = CallerHeaders(c)[h]
            /\ CallerHeaders(c)["Authorization"] # Undefined =>
                   c.sent.headers["Authorization"] = SentAuthorization(c)

C16_Witness ==
    \E c \in InFlight :
        /\ c.opts.body = Credentials
        /\ CallerHeaders(c)["Content-Type"] = Str("multipart/form-data")
        /\ c.sent.headers["Content-Type"] = Str("multipart/form-data")
        /\ c.sent.headers["Accept"] = Str("text/csv")

\* C17: whenever a body that is not multipart is supplied, 0, false and ""
\* included, the request carries its JSON serialisation as body; only when
\* no body is supplied does the request go out without one.
C17_SuppliedBodyIsSerialised ==
    \A c \in InFlight :
        NotMultipart(c) =>
            IF c.opts.body = Undefined
            THEN c.sent.body = Undefined
            ELSE c.sent.body = Str(JSON_stringify(c.opts.body).v)

\* the step makes one call of request, made for the method `name`
OneRequestCall(name) ==
    /\ delivered' = NoDelivery
    /\ \E c \in BagToSet(calls') : c.op = name /\ calls' = calls (+) SetToBag({c})

\* C20: every catalog method but auth.googleLogin makes exactly one call of
\* request, and what its caller receives is what that call settles with:
\* the parsed payload, or the structured error with the same message,
\* status and data; auth.googleLogin makes no call of request.
C20_CatalogMethodIsOneRequest ==
    [][ /\ \A m \in api : api_method(m) => OneRequestCall(m.name)
        /\ auth_logout => OneRequestCall("auth.logout")
        /\ auth_googleLogin => calls' = calls
        /\ \A c \in InFlight, outcome \in Outcomes :
               FetchSettles(c, outcome) =>
                   /\ delivered'.op = c.op
                   /\ delivered'.result = Continuation(outcome)
                   /\ calls' = calls (-) SetToBag({c}) ]_vars

C20_Witness ==
    /\ location = API_BASE \o "/auth/google/login"
    /\ calls = EmptyBag
    /\ delivered.op = "menu.updateOrderItem"
    /\ delivered.result = Rejected(ApiError(Str("not found"), 404, Obj("{message}", Str("not found"))))

GoogleLoginUrl == API_BASE \o "/auth/google/login"

\* C21: auth.googleLogin navigates the browser to <base>/auth/google/login
\* and hands no value back to its caller (undefined).
C21_GoogleLoginReturnsNothing ==
    delivered.op = "auth.googleLogin" =>
        /\ location = GoogleLoginUrl
        /\ delivered.result = [kind |-> "returned", value |-> Undefined]

Endpoint(name, verb, path, body) == [name |-> name, verb |-> verb, path |-> path, body |-> body]

DataBody == Str("{\"name\":\"A\",\"email\":\"a@b.c\"}")

\* the endpoint table, for id 7, status active, days 3, role admin,
\* email a@b.c, token t and new password pw
EndpointTable ==
    { Endpoint("user.getMe", "GET", "/user/me", Undefined),
      Endpoint("user.update", "PATCH", "/user/update", DataBody),
      Endpoint("user.changeStatus", "PATCH", "/user/status/7", Str("{\"status\":\"active\",\"days\":3}")),
      Endpoint("user.changeRole", "PATCH", "/user/role/7", Str("{\"role\":\"admin\"}")),
      Endpoint("auth.register", "POST", "/auth/register", DataBody),
      Endpoint("auth.login", "POST", "/auth/login", Str("{\"email\":\"a@b.c\",\"password\":\"pw\"}")),
      Endpoint("auth.forgotPassword", "POST", "/auth/forgot-password", Str("{\"email\":\"a@b.c\"}")),
      Endpoint("auth.resetPassword", "POST", "/auth/reset-password",
               Str("{\"token\":\"t\",\"new_password\":\"pw\"}")),
      Endpoint("table.create", "POST", "/table/tables", DataBody),
      Endpoint("table.getAll", "GET", "/table/tables", Undefined),
      Endpoint("table.get", "GET", "/table/tables/7", Undefined),
      Endpoint("table.update", "PUT", "/table/tables/7", DataBody),
      Endpoint("table.delete", "DELETE", "/table/tables/7", Undefined),
      Endpoint("reservation.checkAvailability", "POST", "/reservations/check-availability", DataBody),
      Endpoint("payment.adjust", "POST", "/payments/7/adjust", DataBody),
      Endpoint("notification.markAllRead", "PATCH", "/notifications/mark-all-read", Undefined) }

\* C22: each catalog method of the endpoint table sends the table's verb to
\* the table's path under the base address, with the table's body: the data
\* passed in, the object built from the arguments, or none.
C22_CatalogFollowsEndpointTable ==
    \A c \in InFlight, e \in EndpointTable :
        c.op = e.name =>
            /\ c.sent.method = Str(e.verb)
            /\ c.sent.url = API_BASE \o e.path
            /\ c.sent.body = e.body

C22_Witness ==
    \E c \in InFlight :
        /\ c.op = "user.changeStatus"
        /\ c.sent.method = Str("PATCH")
        /\ c.sent.url = "http://127.0.0.1:5000/api/user/status/7"
        /\ c.sent.body = Str("{\"status\":\"active\",\"days\":3}")

\* the calls of request a step may make while calls overlap
RequestStep == \E path \in RequestPaths, opts \in ConcurrentOptions : request(path, opts)

\* C23: calls in flight together are independent.  What a call hands to the
\* transport is fixed by its own arguments and the token read for it; a
\* new call leaves the calls in flight as they are; an answer settles its
\* own call with the result of that answer and leaves the others in flight
\* as they are, in whatever order the answers arrive.
C23_CallsAreIndependent ==
    [][ /\ \A c \in BagToSet(calls') : c.sent = RequestSync(c.path, c.opts, c.storeAtFetch)
        /\ (RequestStep \/ auth_logout) =>
               \E c \in BagToSet(calls') : calls' = calls (+) SetToBag({c})
        /\ \A c \in InFlight, outcome \in ConcurrentOutcomes :
               FetchSettles(c, outcome) =>
                   /\ calls' = calls (-) SetToBag({c})
                   /\ delivered'.op = c.op
                   /\ delivered'.storeAtCall = c.storeAtCall
                   /\ delivered'.result = Continuation(outcome) ]_vars

C23_Witness ==
    /\ delivered.op = "request"
    /\ delivered.storeAtCall = Null
    /\ delivered.result.kind = "resolved"
    /\ \E c \in InFlight :
           /\ c.storeAtFetch = Str("abc")
           /\ c.opts.body = Credentials
           /\ c.sent.headers["Authorization"] = Str("Bearer abc")

\* C24: the request auth.logout sends to /auth/logout carries no
\* Authorization header, whatever token was stored when logout was called.
C24_LogoutRequestHasNoAuthorization ==
    \A c \in InFlight :
        c.op = "auth.logout" =>
            /\ c.sent.url = API_BASE \o "/auth/logout"
            /\ c.sent.headers["Authorization"] = Undefined

C24_Witness ==
    \E c \in InFlight :
        /\ c.op = "auth.logout"
        /\ c.storeAtCall = Str("xyz")
        /\ c.sent.headers = DefaultHeaders

\* C25: the token a request carries is fixed when request is called.  A
\* step either leaves the calls in flight as they are (a write of the token
\* store does), or takes one settled call away, or adds one call whose
\* Authorization comes from the store as it is at that step: Bearer <token>
\* for a call made while a token is stored, none from the store for a call
\* made once it is cleared, the call of logout itself included.
C25_TokenIsFixedAtInvocation ==
    [][ \/ calls' = calls
        \/ \E c \in InFlight : calls' = calls (-) SetToBag({c})
        \/ \E c \in BagToSet(calls') :
               /\ calls' = calls (+) SetToBag({c})
               /\ c.sent.headers["Authorization"] =
                      IF Truthy(store') THEN Bearer(store') ELSE CallerHeaders(c)["Authorization"] ]_vars

C25_Witness ==
    /\ store = Null
    /\ lastOp.op = "auth.logout"
    /\ \E c, d \in InFlight :
           /\ c.op = "request"
           /\ c.sent.headers["Authorization"] = Str("Bearer abc")
           /\ d.op = "auth.logout"
           /\ d.storeAtCall = Str("abc")
           /\ d.sent.headers["Authorization"] = Undefined

\* the call a step adds to the calls in flight, if it adds one
Added(c) == calls' = calls (+) SetToBag({c})

\* C26: once clearAuthToken or auth.logout was the last to write the token
\* store, a request called afterwards carries no bearer token from the
\* store, whatever calls and answers come in between; once setAuthToken
\* was the last to write it, with a non-empty token, a request called
\* afterwards carries that token; after any setAuthToken it carries no
\* earlier token.
C26_ClearedTokenIsNeverSent ==
    [][ \A c \in BagToSet(calls') :
            (Added(c) /\ c.op = "request") =>
                /\ lastOp.op \in {"clearAuthToken", "auth.logout"} =>
                       c.sent.headers["Authorization"] = CallerHeaders(c)["Authorization"]
                /\ (lastOp.op = "setAuthToken" /\ Truthy(lastOp.arg)) =>
                       c.sent.headers["Authorization"] = Bearer(lastOp.arg)
                /\ lastOp.op = "setAuthToken" =>
                       c.sent.headers["Authorization"] \in
                           {Bearer(lastOp.arg), CallerHeaders(c)["Authorization"]} ]_vars

C26_Witness ==
    /\ lastOp = [op |-> "setAuthToken", arg |-> Str("xyz")]
    /\ \E c, d \in InFlight :
           /\ d.op = "auth.logout"
           /\ d.storeAtCall = Str("abc")
           /\ c.op = "request"
           /\ c.sent.headers["Authorization"] = Str("Bearer xyz")

\* after a clearing: a request in flight that was called with the store empty
C26_WitnessCleared ==
    /\ lastOp.op = "clearAuthToken"
    /\ \E c \in InFlight :
           /\ c.op = "request"
           /\ c.storeAtFetch = Null
           /\ c.sent.headers["Authorization"] = Undefined

\* C27: when a token is stored and the caller's headers hold an
\* Authorization entry as well, the request carries Authorization: Bearer
\* <stored token>, not the caller's value, whatever the body.
C27_StoredTokenBeatsCallerAuthorization ==
    \A c \in InFlight :
        (Truthy(c.storeAtFetch) /\ CallerHeaders(c)["Authorization"] # Undefined) =>
            /\ c.sent.headers["Authorization"] = Bearer(c.storeAtFetch)
            /\ c.sent.headers["Authorization"] # CallerHeaders(c)["Authorization"]

C27_Witness ==
    \E c \in InFlight :
        /\ c.storeAtFetch = Str("xyz")
        /\ CallerHeaders(c)["Authorization"] = Str("Basic dXNlcg==")
        /\ c.opts.body = Num("0")
        /\ c.sent.headers["Authorization"] = Str("Bearer xyz")

\* C28: on the landing page, the mobile Login button navigates to /login
\* and the mobile Sign Up button to /signup, from every state of the page
\* and without raising an error.
C28_MobileAuthButtonsNavigate ==
    [][ \A href \in {"login", "signup"} :
            mobileAuthButton_onClick(href) =>
                /\ location' = Origin \o href
                /\ page'.error = NoError ]_vars

\* C29: the mobile menu starts closed; the menu button flips it; a
\* navigation link leaves it closed whatever it was; nothing else, a change
\* of the preview's role included, changes it.
C29_MenuIsTwoStateMachine ==
    /\ page.isMenuOpen = FALSE
    /\ [][ /\ menuButton_onClick => page'.isMenuOpen = ~page.isMenuOpen
           /\ \A href \in NavLinks : navLink_onClick(href) => page'.isMenuOpen = FALSE
           /\ ~(menuButton_onClick \/ \E href \in NavLinks : navLink_onClick(href)) =>
                  page'.isMenuOpen = page.isMenuOpen ]_vars

C29_Witness ==
    /\ page.isMenuOpen
    /\ page.selectedRole = "CHEF"
    /\ location = Origin \o "#benefits"

\* the options of call c with the headers map as the call left it
Reused(c) == [c.opts EXCEPT !.headers = HeadersAfterCall(c.path, c.opts, c.storeAtFetch)]

\* C30: request leaves the caller's headers map as it was, also when it
\* adds Authorization or removes Content-Type for a multipart body; a
\* second call given the same map sends the headers a fresh copy would
\* give, under every content of the token store.
C30_CallerHeadersAreNotModified ==
    \A c \in InFlight :
        /\ HeadersAfterCall(c.path, c.opts, c.storeAtFetch) = c.opts.headers
        /\ \A st \in {Null} \cup Tokens :
               RequestSync(c.path, Reused(c), st).headers = RequestSync(c.path, c.opts, st).headers

C30_Witness ==
    \E c \in InFlight :
        /\ c.opts.body = FormData("avatar.png")
        /\ c.storeAtFetch = Str("abc")
        /\ c.opts.headers =
               [NoHeaders EXCEPT !["Content-Type"] = Str("multipart/form-data"), !["Accept"] = Str("text/csv")]
        /\ c.sent.headers =
               [NoHeaders EXCEPT !["Accept"] = Str("text/csv"), !["Authorization"] = Str("Bearer abc")]
        /\ HeadersAfterCall(c.path, c.opts, c.storeAtFetch) = c.opts.headers

=============================================================================
